---- MODULE Spec2Model ----
(***************************************************************************)
(* Model of src/scraper_new.py: the fetch helper with bounded retries, the *)
(* discovery of department codes from the 26 A-Z index pages, the          *)
(* sequential harvest of one course shard per department, and the          *)
(* deduplication of the harvested records.                                 *)
(*                                                                         *)
(* Text is modelled at the level its code inspects it:                     *)
(*   - a department code is the sequence of its code points, so that       *)
(*     sorted() is the code-point order Python uses;                       *)
(*   - a response body is a sequence of tokens (noise characters, bytes    *)
(*     that are not UTF-8, '[', ']', ',' and whole JSON literals);         *)
(*   - a decoded JSON value is [kind, items, s]: a dict keeps its          *)
(*     (name, value) pairs in document order, every other value keeps      *)
(*     the text Python's repr() gives it.                                  *)
(***************************************************************************)
EXTENDS Integers, Sequences, FiniteSets, TLC

VARIABLES
    index,        \* the index site: per shard, the outcome of each attempt
    tasks,        \* get_departments: the 26 fetch coroutines given to gather
    pages,        \* get_departments: what gather returned, per shard
    departments,  \* scrape_courses: the department list
    pc,           \* scrape_courses: where the run is
    k,            \* get_courses: position of the for loop in departments
    htask,        \* get_courses: the fetch call of the current department
    sent,         \* how the site built the body of the last answered request
    good,         \* records the site served in answers that are clean lists
    visited,      \* departments for which a fetch call was started
    all_courses,  \* get_courses: accumulated records
    seen,         \* get_courses: keys already kept
    deduped,      \* get_courses: records kept
    di,           \* get_courses: position of the dedup loop in all_courses
    err,          \* the exception that left get_courses, "" when none
    call,         \* a single fetch call with any retries argument
    script        \* the outcomes the source gives that call, per attempt

vars == <<index, tasks, pages, departments, pc, k, htask, sent, good, visited,
          all_courses, seen, deduped, di, err, call, script>>

discoveryVars == <<index, tasks, pages>>
harvestVars == <<k, htask, sent, good, visited, all_courses>>
dedupVars == <<seen, deduped, di, err>>
callVars == <<call, script>>

(***************************************************************************)
(* Bounds of the model.                                                    *)
(***************************************************************************)
MaxRetries == 3     \* largest retries argument tried on a single fetch call
NumShards == 2      \* index shards modelled (the program has 26)
MaxItems == 1       \* longest list payload the site serves
MaxCourses == 3     \* the site stops serving records beyond this many
MaxLen == 3         \* longest record sequence given to the dedup loop alone

(***************************************************************************)
(* Sequences.                                                              *)
(***************************************************************************)
Range(q) == {q[i] : i \in 1..Len(q)}

SeqsUpTo(S, n) == UNION {[1..m -> S] : m \in 0..n}

RECURSIVE Concat(_)
Concat(qs) == IF qs = <<>> THEN <<>> ELSE Head(qs) \o Concat(Tail(qs))

\* q[a:b] of Python for a >= 0 and b = -1 .. the slice rows[3:-1]
SliceFromToLast(q, a) ==
    IF Len(q) - 1 <= a THEN <<>> ELSE [i \in 1..(Len(q) - 1 - a) |-> q[a + i]]

RECURSIVE IsSubSeq(_, _)
IsSubSeq(a, b) ==
    IF a = <<>> THEN TRUE
    ELSE IF b = <<>> THEN FALSE
    ELSE IF Head(a) = Head(b) THEN IsSubSeq(Tail(a), Tail(b))
    ELSE IsSubSeq(a, Tail(b))

(***************************************************************************)
(* Decoded JSON values, as Python holds them.                              *)
(***************************************************************************)
Scalar(kind, s) == [kind |-> kind, items |-> <<>>, s |-> s]
Pair(name, val) == [name |-> name, val |-> val]
Dict(items) == [kind |-> "dict", items |-> items, s |-> ""]
None == Scalar("null", "None")
StrVal(s) == Scalar("str", s)
IntVal(s) == Scalar("int", s)

IsDict(c) == c.kind = "dict"

\* dict.get(name): the value under name, None when the dict has no such key
Get(c, name) ==
    IF \E i \in 1..Len(c.items) : c.items[i].name = name
    THEN c.items[CHOOSE i \in 1..Len(c.items) : c.items[i].name = name].val
    ELSE None

\* bool(v), which the operator `or` applies to its left operand
Truthy(v) ==
    CASE v.kind = "null" -> FALSE
      [] v.kind = "int" -> v.s # "0"
      [] v.kind = "bool" -> v.s = "True"
      [] v.kind = "str" -> v.s # ""
      [] v.kind = "list" -> v.s # "[]"
      [] v.kind = "dict" -> v.items # <<>>

RECURSIVE JoinReprs(_)
JoinReprs(texts) ==
    IF texts = <<>> THEN ""
    ELSE IF Len(texts) = 1 THEN texts[1]
    ELSE texts[1] \o ", " \o JoinReprs(Tail(texts))

\* repr(v); the values inside a dict are scalars or lists, whose repr is kept in s
ScalarRepr(v) == IF v.kind = "str" THEN "'" \o v.s \o "'" ELSE v.s

Repr(v) ==
    IF v.kind = "dict"
    THEN "{" \o JoinReprs([i \in 1..Len(v.items) |->
                 "'" \o v.items[i].name \o "': " \o ScalarRepr(v.items[i].val)])
             \o "}"
    ELSE ScalarRepr(v)

\* str(c)
Str(c) == StrVal(IF c.kind = "str" THEN c.s ELSE Repr(c))

\* a list value built by the decoder out of its elements
ListVal(elems) ==
    Scalar("list", "[" \o JoinReprs([i \in 1..Len(elems) |-> Repr(elems[i])]) \o "]")

\* hash(v) raises TypeError for lists and dicts
Hashable(v) == v.kind \notin {"list", "dict"}

\* the member of a set that v is equal to: True == 1 and False == 0 in Python
HashKey(v) ==
    IF v.kind = "bool" THEN IntVal(IF v.s = "True" THEN "1" ELSE "0") ELSE v

(***************************************************************************)
(* Response bodies and their decoding (get_courses, lines 146-157).        *)
(***************************************************************************)
Tok(t) == [t |-> t, v |-> None]
Lit(v) == [t |-> "val", v |-> v]

\* raw.decode("utf-8", errors="ignore"): bytes that are not UTF-8 are dropped
DecodeIgnore(raw) == SelectSeq(raw, LAMBDA b : b.t # "bad")

\* text.find("["), 1-based; 0 stands for Python's -1
Find(text) ==
    IF \E i \in 1..Len(text) : text[i].t = "["
    THEN CHOOSE i \in 1..Len(text) :
             text[i].t = "[" /\ \A j \in 1..(i - 1) : text[j].t # "["
    ELSE 0

ParseFail == [ok |-> FALSE, val |-> None, elems |-> <<>>, nxt |-> 0]

\* the JSON decoder on the tokens from position i: a literal, or a list of values
RECURSIVE ParseValue(_, _)
RECURSIVE ParseItems(_, _, _)
ParseValue(toks, i) ==
    IF i > Len(toks) THEN ParseFail
    ELSE IF toks[i].t = "val"
    THEN [ok |-> TRUE, val |-> toks[i].v, elems |-> <<>>, nxt |-> i + 1]
    ELSE IF toks[i].t = "["
    THEN IF i + 1 <= Len(toks) /\ toks[i + 1].t = "]"
         THEN [ok |-> TRUE, val |-> ListVal(<<>>), elems |-> <<>>, nxt |-> i + 2]
         ELSE ParseItems(toks, i + 1, <<>>)
    ELSE ParseFail

ParseItems(toks, i, acc) ==
    LET r == ParseValue(toks, i)
        acc2 == Append(acc, r.val)
    IN  IF ~r.ok \/ r.nxt > Len(toks) THEN ParseFail
        ELSE IF toks[r.nxt].t = "]"
        THEN [ok |-> TRUE, val |-> ListVal(acc2), elems |-> acc2, nxt |-> r.nxt + 1]
        ELSE IF toks[r.nxt].t = ","
        THEN ParseItems(toks, r.nxt + 1, acc2)
        ELSE ParseFail

\* json.loads(text): the whole text must be one value; ok = FALSE is JSONDecodeError
JsonLoads(text) ==
    LET r == ParseValue(text, 1)
    IN  IF r.ok /\ r.nxt = Len(text) + 1
        THEN [ok |-> TRUE, data |-> r.elems]
        ELSE [ok |-> FALSE, data |-> <<>>]

\* the decoded list replaces the accumulated records (= instead of extend)
ProcessRawReplace(result, courses) ==
    IF result.none \/ Len(result.body) = 0 THEN courses
    ELSE LET text == DecodeIgnore(result.body)
             json_start == Find(text)
         IN  IF json_start = 0 THEN courses
             ELSE LET loaded == JsonLoads(SubSeq(text, json_start, Len(text)))
                  IN  IF loaded.ok THEN loaded.data ELSE courses

\* the text is decoded as JSON from its first character, whatever precedes '['
ProcessRawNoPreamble(result, courses) ==
    IF result.none \/ Len(result.body) = 0 THEN courses
    ELSE LET text == DecodeIgnore(result.body)
             json_start == Find(text)
         IN  IF json_start = 0 THEN courses
             ELSE LET loaded == JsonLoads(text)
                  IN  IF loaded.ok THEN courses \o loaded.data ELSE courses

\* the decoded list is put before the accumulated records
ProcessRawPrepend(result, courses) ==
    IF result.none \/ Len(result.body) = 0 THEN courses
    ELSE LET text == DecodeIgnore(result.body)
             json_start == Find(text)
         IN  IF json_start = 0 THEN courses
             ELSE LET loaded == JsonLoads(SubSeq(text, json_start, Len(text)))
                  IN  IF loaded.ok THEN loaded.data \o courses ELSE courses

\* lines 142-157 for one fetch result: the records all_courses holds afterwards
ProcessRaw(result, courses) ==
    IF result.none \/ Len(result.body) = 0 THEN courses
    ELSE LET text == DecodeIgnore(result.body)
             json_start == Find(text)
         IN  IF json_start = 0 THEN courses
             ELSE LET loaded == JsonLoads(SubSeq(text, json_start, Len(text)))
                  IN  IF loaded.ok THEN courses \o loaded.data ELSE courses

(***************************************************************************)
(* The dedup loop (get_courses, lines 160-168).                            *)
(***************************************************************************)
\* line 163: c.get("id") or c.get("CourseNumber") or str(c)
Cid(c) ==
    IF Truthy(Get(c, "id")) THEN Get(c, "id")
    ELSE IF Truthy(Get(c, "CourseNumber")) THEN Get(c, "CourseNumber")
    ELSE Str(c)

DedupStart == [seen |-> {}, deduped |-> <<>>, err |-> ""]

\* a later record with a known key replaces the one kept (last wins)
DedupIterLastWins(st, c) ==
    IF ~IsDict(c) THEN [st EXCEPT !.err = "AttributeError"]
    ELSE IF ~Hashable(Cid(c)) THEN [st EXCEPT !.err = "TypeError"]
    ELSE IF HashKey(Cid(c)) \notin st.seen
    THEN [st EXCEPT !.deduped = Append(st.deduped, c),
                    !.seen = st.seen \cup {HashKey(Cid(c))}]
    ELSE [st EXCEPT !.deduped =
              [i \in 1..Len(st.deduped) |->
                  IF HashKey(Cid(st.deduped[i])) = HashKey(Cid(c))
                  THEN c ELSE st.deduped[i]]]

\* a duplicate is dropped but its key is forgotten again
DedupIterForget(st, c) ==
    IF ~IsDict(c) THEN [st EXCEPT !.err = "AttributeError"]
    ELSE IF ~Hashable(Cid(c)) THEN [st EXCEPT !.err = "TypeError"]
    ELSE IF HashKey(Cid(c)) \notin st.seen
    THEN [st EXCEPT !.deduped = Append(st.deduped, c),
                    !.seen = st.seen \cup {HashKey(Cid(c))}]
    ELSE [st EXCEPT !.seen = st.seen \ {HashKey(Cid(c))}]

\* the key is recorded before it is looked up: no record is ever appended
DedupIterAddFirst(st, c) ==
    IF ~IsDict(c) THEN [st EXCEPT !.err = "AttributeError"]
    ELSE IF ~Hashable(Cid(c)) THEN [st EXCEPT !.err = "TypeError"]
    ELSE [st EXCEPT !.seen = st.seen \cup {HashKey(Cid(c))}]

\* one iteration of the loop on record c; err names the exception it raises
DedupIter(st, c) ==
    IF ~IsDict(c) THEN [st EXCEPT !.err = "AttributeError"]
    ELSE IF ~Hashable(Cid(c)) THEN [st EXCEPT !.err = "TypeError"]
    ELSE IF HashKey(Cid(c)) \notin st.seen
    THEN [st EXCEPT !.deduped = Append(st.deduped, c),
                    !.seen = st.seen \cup {HashKey(Cid(c))}]
    ELSE st

\* the whole loop on a record sequence
RECURSIVE DedupFrom(_, _)
DedupFrom(st, records) ==
    IF records = <<>> \/ st.err # "" THEN st
    ELSE DedupFrom(DedupIter(st, Head(records)), Tail(records))

Dedupe(records) == DedupFrom(DedupStart, records)

(***************************************************************************)
(* fetch (lines 56-63).  A call is at a try (st = "try"), in the sleep of  *)
(* its except clause (st = "sleep") or has returned (st = "done").         *)
(***************************************************************************)
\* a default of four attempts
RetriesFour == 3 + 1

Retries == 3

NoBytes == [none |-> TRUE, body |-> <<>>]
Bytes(body) == [none |-> FALSE, body |-> body]

Failure(kind) == [ok |-> FALSE, kind |-> kind, body |-> <<>>]
Success(body) == [ok |-> TRUE, kind |-> "", body |-> body]
FailKinds == {"timeout", "connection", "read"}

NewCall(retries) ==
    [st |-> IF retries > 0 THEN "try" ELSE "done", i |-> 0, retries |-> retries,
     attempts |-> 0, sleeps |-> 0, result |-> NoBytes]

\* the bytes are kept but the loop goes on instead of returning
AttemptOkNoReturn(t, body) ==
    [t EXCEPT !.st = "sleep", !.attempts = t.attempts + 1, !.result = Bytes(body)]

\* line 59-60: the request is answered and read, fetch returns the bytes
AttemptOk(t, body) ==
    [t EXCEPT !.st = "done", !.attempts = t.attempts + 1, !.result = Bytes(body)]

\* line 59-61: the attempt raises, whatever the exception, and the except clause starts
AttemptFail(t) ==
    [t EXCEPT !.st = "sleep", !.attempts = t.attempts + 1]

\* one attempt with the outcome the source gives it
Attempt(t, outcome) ==
    IF outcome.ok THEN AttemptOk(t, outcome.body) ELSE AttemptFail(t)

\* the loop runs over range(retries - 1)
SleepDoneEarly(t) ==
    [t EXCEPT !.sleeps = t.sleeps + 1, !.i = t.i + 1,
              !.st = IF t.i + 1 < t.retries - 1 THEN "try" ELSE "done"]

\* line 62, 57, 63: the sleep ends; the loop goes on or fetch returns None
SleepDone(t) ==
    [t EXCEPT !.sleeps = t.sleeps + 1, !.i = t.i + 1,
              !.st = IF t.i + 1 < t.retries THEN "try" ELSE "done"]

(***************************************************************************)
(* Department codes and index pages (parse_department_page, lines 68-84).  *)
(* A page is the sequence of its parts: table rows ("tr") with the hrefs   *)
(* of their anchors in document order, anchors outside any table row ("a") *)
(* and other markup ("text").  An href stands for the string               *)
(* "/" stem "_" term "." ext.                                              *)
(***************************************************************************)
TERM_WORDS == <<"", "Spring", "Summer", "Fall">>

\* line 90: TERM_WORDS[int(term_code[-1])] + term_code[:-1]
SemesterOf(term_code) == TERM_WORDS[term_code.term + 1] \o term_code.year

\* line 183: scrape_courses("20253")
semester == SemesterOf([year |-> "2025", term |-> 3])

ACCT == <<65, 67, 67, 84>>
GUHIS == <<71, 85, 72, 73, 83>>
HIST == <<72, 73, 83, 84>>
MATH == <<77, 65, 84, 72>>
STAT == <<83, 84, 65, 84>>
UNHI == <<85, 78, 72, 73>>
UNHS == <<85, 78, 72, 83>>
\* "hist", "A_B", "CS1"
hist == <<104, 105, 115, 116>>
A_B == <<65, 95, 66>>
CS1 == <<67, 83, 49>>

\* \w of the regular expression
IsWordChar(cp) ==
    cp \in (48..57) \cup (65..90) \cup {95} \cup (97..122)

Href(stem, term, ext) == [stem |-> stem, term |-> term, ext |-> ext]
Row(hrefs) == [t |-> "tr", hrefs |-> hrefs]
Anchor(href) == [t |-> "a", hrefs |-> <<href>>]
Markup == [t |-> "text", hrefs |-> <<>>]

\* line 72, 80: regex.search(href) finds /(\w{2,6})_<semester>\.html
Matches(href, sem) ==
    /\ Len(href.stem) \in 2..6
    /\ \A i \in 1..Len(href.stem) : IsWordChar(href.stem[i])
    /\ href.term = sem
    /\ href.ext = "html"

\* lines 77-82 for one row: the codes of its matching anchors
RowCodes(row, sem) ==
    LET hit == SelectSeq(row.hrefs, LAMBDA h : Matches(h, sem))
    IN  [i \in 1..Len(hit) |-> hit[i].stem]

\* every table row read, none skipped
parse_all_rows(html, sem) ==
    LET trs == SelectSeq(html, LAMBDA part : part.t = "tr")
    IN  Concat([i \in 1..Len(trs) |-> RowCodes(trs[i], sem)])

parse_department_page(html, sem) ==
    LET trs == SelectSeq(html, LAMBDA part : part.t = "tr")
        rows == SliceFromToLast(trs, 3)
    IN  Concat([i \in 1..Len(rows) |-> RowCodes(rows[i], sem)])

\* the order of str: code point by code point, a proper prefix first
CodeLess(a, b) ==
    LET n == IF Len(a) < Len(b) THEN Len(a) ELSE Len(b)
        diff == {i \in 1..n : a[i] # b[i]}
    IN  IF diff = {} THEN Len(a) < Len(b)
        ELSE LET j == CHOOSE i \in diff : \A i2 \in diff : i <= i2
             IN  a[j] < b[j]

\* sorted(S) for a set of codes
RECURSIVE SortedOf(_)
SortedOf(S) ==
    IF S = {} THEN <<>>
    ELSE LET m == CHOOSE x \in S : \A y \in S : x = y \/ CodeLess(x, y)
         IN  <<m>> \o SortedOf(S \ {m})

\* the list as it is, neither sorted nor freed of duplicates
Unsorted(codes) == codes

\* sorted(set(codes)) for a list of codes
SortedSet(codes) == SortedOf(Range(codes))

\* the page loop left (break) at the first shard without a page
RECURSIVE AllDeptsBreak(_, _)
AllDeptsBreak(results, sem) ==
    IF results = <<>> THEN <<>>
    ELSE LET page == Head(results)
         IN  IF page.none \/ Len(page.body) = 0 THEN <<>>
             ELSE parse_department_page(page.body, sem) \o AllDeptsBreak(Tail(results), sem)

\* lines 106-112: the pages gather returned, in shard order
RECURSIVE AllDepts(_, _)
AllDepts(results, sem) ==
    IF results = <<>> THEN <<>>
    ELSE LET page == Head(results)
         IN  (IF page.none \/ Len(page.body) = 0 THEN <<>>
              ELSE parse_department_page(page.body, sem))
             \o AllDepts(Tail(results), sem)

get_departments(results, sem) == SortedSet(AllDepts(results, sem))

\* line 120
MANUAL_DEPTS == <<HIST, UNHS, UNHI, GUHIS>>

\* the fallback used only when discovery found nothing
AddManualIfEmpty(depts) ==
    IF depts = <<>> THEN SortedOf(Range(MANUAL_DEPTS)) ELSE depts

\* line 121: sorted(set(departments + MANUAL_DEPTS))
AddManual(depts) == SortedSet(depts \o MANUAL_DEPTS)

(***************************************************************************)
(* The index site.  Each shard answers its attempts by a fixed script.     *)
(***************************************************************************)
Shards == 1..NumShards

Header == <<Row(<<Href(STAT, semester, "html")>>), Row(<<>>), Row(<<>>)>>
Footer == <<Row(<<Href(STAT, semester, "html")>>)>>

\* one listed department, and an anchor outside the table
PageA == <<Markup>> \o Header \o <<Row(<<Href(MATH, semester, "html")>>)>>
             \o Footer \o <<Anchor(Href(STAT, semester, "html"))>>
\* departments out of order, one twice, one of the manual list, one of another term
PageB == Header \o <<Row(<<Href(MATH, semester, "html"), Href(ACCT, semester, "html")>>),
                     Row(<<Href(HIST, semester, "html"), Href(MATH, semester, "html"),
                           Href(STAT, "Spring2025", "html")>>)>>
             \o Footer
\* four rows only: every row is a header or footer row
PageShort == Header \o <<Row(<<Href(ACCT, semester, "html")>>)>>
PageEmpty == <<>>
\* codes as the page spells them: lower case, with an underscore, with a digit;
\* and stems that line 72 does not take: one character, eight, a hyphen
PageC == Header \o <<Row(<<Href(hist, semester, "html"), Href(A_B, semester, "html"),
                           Href(<<65>>, semester, "html")>>),
                     Row(<<Href(CS1, semester, "html"), Href(HIST \o UNHS, semester, "html"),
                           Href(<<65, 45, 66>>, semester, "html"),
                           Href(UNHS, semester, "pdf")>>)>>
             \o Footer

Pages == {PageA, PageB, PageC, PageShort, PageEmpty}

\* fails the first n attempts, then answers with page
FailsThen(n, page) ==
    [j \in 1..Retries |-> IF j <= n THEN Failure("timeout") ELSE Success(page)]

IndexScripts == {FailsThen(n, page) : n \in 0..Retries, page \in Pages}

(***************************************************************************)
(* Discovery: get_departments (lines 97-114) and lines 120-121.            *)
(***************************************************************************)
NoShape == [kind |-> "none", pre |-> <<>>, items |-> <<>>, post |-> <<>>]

HarvestIdle ==
    /\ k = 1
    /\ htask = NewCall(0)
    /\ sent = NoShape
    /\ good = <<>>
    /\ visited = <<>>
    /\ all_courses = <<>>

DedupIdle ==
    /\ seen = {}
    /\ deduped = <<>>
    /\ di = 1
    /\ err = ""

CallIdle ==
    /\ call = NewCall(0)
    /\ script = <<>>

DiscoveryIdle ==
    /\ index = [s \in Shards |-> FailsThen(Retries, PageEmpty)]
    /\ tasks = [s \in Shards |-> NewCall(0)]
    /\ pages = <<>>

\* lines 100-104: the 26 coroutines are handed to gather
Init ==
    /\ index \in [Shards -> IndexScripts]
    /\ tasks = [s \in Shards |-> NewCall(Retries)]
    /\ pages = <<>>
    /\ departments = <<>>
    /\ pc = "gather"
    /\ HarvestIdle
    /\ DedupIdle
    /\ CallIdle

\* one attempt of the fetch of shard s
ShardAttempt(s) ==
    /\ pc = "gather"
    /\ tasks[s].st = "try"
    /\ tasks' = [tasks EXCEPT ![s] = Attempt(tasks[s], index[s][tasks[s].attempts + 1])]
    /\ UNCHANGED <<index, pages, departments, pc>>
    /\ UNCHANGED <<harvestVars, dedupVars, callVars>>

\* the sleep of the fetch of shard s ends
ShardSleep(s) ==
    /\ pc = "gather"
    /\ tasks[s].st = "sleep"
    /\ tasks' = [tasks EXCEPT ![s] = SleepDone(tasks[s])]
    /\ UNCHANGED <<index, pages, departments, pc>>
    /\ UNCHANGED <<harvestVars, dedupVars, callVars>>

\* the pages are taken as soon as one coroutine has returned
GatherEarly ==
    /\ pc = "gather"
    /\ \E s \in Shards : tasks[s].st = "done"
    /\ pages' = [s \in Shards |-> tasks[s].result]
    /\ departments' = get_departments(pages', semester)
    /\ pc' = "found"
    /\ UNCHANGED <<index, tasks>>
    /\ UNCHANGED <<harvestVars, dedupVars, callVars>>

\* lines 104-114: gather returns once every coroutine has, the pages are parsed
Gather ==
    /\ pc = "gather"
    /\ \A s \in Shards : tasks[s].st = "done"
    /\ pages' = [s \in Shards |-> tasks[s].result]
    /\ departments' = get_departments(pages', semester)
    /\ pc' = "found"
    /\ UNCHANGED <<index, tasks>>
    /\ UNCHANGED <<harvestVars, dedupVars, callVars>>

\* lines 120-121
AddManualDepts ==
    /\ pc = "found"
    /\ departments' = AddManual(departments)
    /\ pc' = "harvest"
    /\ UNCHANGED <<index, tasks, pages>>
    /\ UNCHANGED <<harvestVars, dedupVars, callVars>>

Next ==
    \/ \E s \in Shards : ShardAttempt(s)
    \/ \E s \in Shards : ShardSleep(s)
    \/ Gather
    \/ AddManualDepts

Spec == Init /\ [][Next]_vars

(***************************************************************************)
(* The course site.  It builds a body as pre \o payload \o post, where the *)
(* payload is the JSON text of the list items, that text cut before its    *)
(* closing bracket, or nothing.                                            *)
(***************************************************************************)
RecA == Dict(<<Pair("id", StrVal("A")), Pair("Title", StrVal("x"))>>)
RecA2 == Dict(<<Pair("id", StrVal("A")), Pair("Title", StrVal("y"))>>)
Seven == IntVal("7")

SiteItems == {RecA, RecA2, Seven}

\* the JSON text of a list
RECURSIVE RenderItems(_)
RenderItems(items) ==
    IF items = <<>> THEN <<>>
    ELSE IF Len(items) = 1 THEN <<Lit(items[1])>>
    ELSE <<Lit(items[1]), Tok(",")>> \o RenderItems(Tail(items))

Render(items) == <<Tok("[")>> \o RenderItems(items) \o <<Tok("]")>>

Shape(kind, pre, items, post) ==
    [kind |-> kind, pre |-> pre, items |-> items, post |-> post]

Raw(shape) ==
    shape.pre
    \o (CASE shape.kind = "list" -> Render(shape.items)
          [] shape.kind = "cut" -> <<Tok("[")>> \o RenderItems(shape.items)
          [] shape.kind = "none" -> <<>>)
    \o shape.post

NoisePre == {<<>>, <<Tok("x")>>, <<Tok("bad")>>, <<Tok("x"), Tok("bad"), Tok("x")>>}
BracketPre == {<<Tok("[")>>, <<Tok("x"), Tok("["), Tok("x")>>}
NoisePost == {<<Tok("x")>>, <<Tok("]")>>, <<Tok("bad")>>}
ItemLists == SeqsUpTo(SiteItems, MaxItems)

Shapes ==
    {Shape("list", pre, items, <<>>) : pre \in NoisePre \cup BracketPre, items \in ItemLists}
    \cup {Shape("list", <<>>, items, post) : items \in ItemLists, post \in NoisePost}
    \cup {Shape("cut", pre, items, <<>>) : pre \in {<<>>, <<Tok("x")>>}, items \in ItemLists}
    \cup {Shape("list", <<Tok("[")>>, <<>>, <<Tok("]")>>)}
    \cup {Shape("none", pre, <<>>, <<>>) : pre \in NoisePre \cup BracketPre}

HasBracket(toks) == \E i \in 1..Len(toks) : toks[i].t = "["

\* the body is noise without '[', then a whole list, then at most bytes decode drops
Clean(shape) ==
    /\ shape.kind = "list"
    /\ ~HasBracket(shape.pre)
    /\ \A i \in 1..Len(shape.post) : shape.post[i].t = "bad"

(***************************************************************************)
(* Harvest and dedup: get_courses (lines 128-168).                         *)
(***************************************************************************)
\* a fetch call run to its return on the outcomes scr
RECURSIVE RunCall(_, _)
RunCall(t, scr) ==
    IF t.st = "done" THEN t
    ELSE IF t.st = "try" THEN RunCall(Attempt(t, scr[t.attempts + 1]), scr)
    ELSE RunCall(SleepDone(t), scr)

\* the state discovery leaves when every shard followed the script scr
DiscoveryDone(scr) ==
    /\ index = [s \in Shards |-> scr]
    /\ tasks = [s \in Shards |-> RunCall(NewCall(Retries), scr)]
    /\ pages = [s \in Shards |-> tasks[s].result]
    /\ departments = AddManual(get_departments(pages, semester))

\* the harvest starts where discovery ended: no shard answered, or each gave PageA
InitHarvest ==
    /\ \E scr \in {FailsThen(Retries, PageEmpty), FailsThen(0, PageA)} : DiscoveryDone(scr)
    /\ pc = "loop"
    /\ HarvestIdle
    /\ DedupIdle
    /\ CallIdle

\* the next department is requested while the current fetch is still sleeping
HarvestLoopEager ==
    /\ pc \in {"loop", "fetch"}
    /\ pc = "fetch" => htask.st = "sleep"
    /\ k' = IF pc = "fetch" THEN k + 1 ELSE k
    /\ k' <= Len(departments)
    /\ htask' = NewCall(Retries)
    /\ visited' = Append(visited, departments[k'])
    /\ sent' = NoShape
    /\ pc' = "fetch"
    /\ UNCHANGED <<good, all_courses, departments>>
    /\ UNCHANGED <<discoveryVars, dedupVars, callVars>>

\* lines 133-141: the loop takes the next department and calls fetch
HarvestLoop ==
    /\ pc = "loop"
    /\ k <= Len(departments)
    /\ htask' = NewCall(Retries)
    /\ visited' = Append(visited, departments[k])
    /\ sent' = NoShape
    /\ pc' = "fetch"
    /\ UNCHANGED <<k, good, all_courses, departments>>
    /\ UNCHANGED <<discoveryVars, dedupVars, callVars>>

\* an attempt of the current fetch is answered
HarvestAttemptOk ==
    /\ pc = "fetch"
    /\ htask.st = "try"
    /\ \E shape \in Shapes :
          /\ Len(all_courses) + Len(shape.items) <= MaxCourses
          /\ htask' = Attempt(htask, Success(Raw(shape)))
          /\ sent' = shape
    /\ UNCHANGED <<k, good, visited, all_courses, departments, pc>>
    /\ UNCHANGED <<discoveryVars, dedupVars, callVars>>

\* an attempt of the current fetch raises
HarvestAttemptFail ==
    /\ pc = "fetch"
    /\ htask.st = "try"
    /\ \E kind \in FailKinds : htask' = Attempt(htask, Failure(kind))
    /\ UNCHANGED <<k, sent, good, visited, all_courses, departments, pc>>
    /\ UNCHANGED <<discoveryVars, dedupVars, callVars>>

HarvestSleep ==
    /\ pc = "fetch"
    /\ htask.st = "sleep"
    /\ htask' = SleepDone(htask)
    /\ UNCHANGED <<k, sent, good, visited, all_courses, departments, pc>>
    /\ UNCHANGED <<discoveryVars, dedupVars, callVars>>

\* lines 142-157: fetch has returned, the body is decoded and its records appended
HarvestProcess ==
    /\ pc = "fetch"
    /\ htask.st = "done"
    /\ all_courses' = ProcessRaw(htask.result, all_courses)
    /\ good' = IF Clean(sent) THEN good \o sent.items ELSE good
    /\ k' = k + 1
    /\ pc' = "loop"
    /\ UNCHANGED <<htask, sent, visited, departments>>
    /\ UNCHANGED <<discoveryVars, dedupVars, callVars>>

\* lines 160-161: the loop is over, the dedup loop starts
HarvestEnd ==
    /\ pc = "loop"
    /\ k > Len(departments)
    /\ seen' = DedupStart.seen
    /\ deduped' = DedupStart.deduped
    /\ err' = DedupStart.err
    /\ di' = 1
    /\ pc' = "dedup"
    /\ UNCHANGED <<departments>>
    /\ UNCHANGED <<discoveryVars, harvestVars, callVars>>

\* lines 162-166: one iteration; an exception leaves get_courses
DedupStep ==
    /\ pc = "dedup"
    /\ di <= Len(all_courses)
    /\ LET st == DedupIter([seen |-> seen, deduped |-> deduped, err |-> err],
                           all_courses[di])
       IN  /\ seen' = st.seen
           /\ deduped' = st.deduped
           /\ err' = st.err
           /\ pc' = IF st.err # "" THEN "raised" ELSE "dedup"
           /\ di' = IF st.err # "" THEN di ELSE di + 1
    /\ UNCHANGED <<departments>>
    /\ UNCHANGED <<discoveryVars, harvestVars, callVars>>

\* line 168
DedupReturn ==
    /\ pc = "dedup"
    /\ di > Len(all_courses)
    /\ pc' = "done"
    /\ UNCHANGED <<departments>>
    /\ UNCHANGED <<discoveryVars, harvestVars, dedupVars, callVars>>

NextHarvest ==
    \/ HarvestLoop
    \/ HarvestAttemptOk
    \/ HarvestAttemptFail
    \/ HarvestSleep
    \/ HarvestProcess
    \/ HarvestEnd
    \/ DedupStep
    \/ DedupReturn

SpecHarvest == InitHarvest /\ [][NextHarvest]_vars

(***************************************************************************)
(* The dedup loop on any sequence of decoded values.                       *)
(***************************************************************************)
RecFalsyId == Dict(<<Pair("id", IntVal("0")), Pair("CourseNumber", StrVal("A"))>>)
RecNoId == Dict(<<Pair("Title", StrVal("x"))>>)
RecOne == Dict(<<Pair("id", IntVal("1"))>>)
RecTrue == Dict(<<Pair("id", Scalar("bool", "True"))>>)
RecListId == Dict(<<Pair("id", Scalar("list", "[1]"))>>)

DedupRecords == {RecA, RecA2, RecFalsyId, RecNoId, RecOne, RecTrue, Seven, RecListId}

InitDedup ==
    /\ DiscoveryDone(FailsThen(Retries, PageEmpty))
    /\ pc = "dedup"
    /\ k = Len(departments) + 1
    /\ htask = NewCall(0)
    /\ sent = NoShape
    /\ good = <<>>
    /\ visited = departments
    /\ all_courses \in SeqsUpTo(DedupRecords, MaxLen)
    /\ DedupIdle
    /\ CallIdle

NextDedup ==
    \/ DedupStep
    \/ DedupReturn

SpecDedup == InitDedup /\ [][NextDedup]_vars

(***************************************************************************)
(* A single call of fetch with any retries argument.                       *)
(***************************************************************************)
CallBodies == {<<>>, <<Tok("x")>>}
CallOutcomes == {Failure(kind) : kind \in FailKinds} \cup {Success(b) : b \in CallBodies}

InitFetch ==
    /\ DiscoveryIdle
    /\ departments = <<>>
    /\ pc = "call"
    /\ HarvestIdle
    /\ DedupIdle
    /\ script \in [1..MaxRetries -> CallOutcomes]
    /\ \E retries \in 1..MaxRetries : call = NewCall(retries)

CallAttempt ==
    /\ pc = "call"
    /\ call.st = "try"
    /\ call' = Attempt(call, script[call.attempts + 1])
    /\ UNCHANGED <<script, departments, pc>>
    /\ UNCHANGED <<discoveryVars, harvestVars, dedupVars>>

CallSleep ==
    /\ pc = "call"
    /\ call.st = "sleep"
    /\ call' = SleepDone(call)
    /\ UNCHANGED <<script, departments, pc>>
    /\ UNCHANGED <<discoveryVars, harvestVars, dedupVars>>

NextFetch ==
    \/ CallAttempt
    \/ CallSleep

SpecFetch == InitFetch /\ [][NextFetch]_vars

(***************************************************************************)
(* Properties of discovery, under Spec.                                    *)
(***************************************************************************)
\* the page a script yields to a fetch call with `Retries` attempts, if any
Answered(scr) == \E j \in 1..Retries : scr[j].ok
FirstOk(scr) == CHOOSE j \in 1..Retries : scr[j].ok /\ \A j2 \in 1..(j - 1) : ~scr[j2].ok

StrictlySorted(codes) ==
    \A i \in 1..(Len(codes) - 1) : CodeLess(codes[i], codes[i + 1])

AllShardsFailed == \A s \in Shards : ~Answered(index[s])

\* C1: once the department list is complete (it is the list the harvest loop
\* iterates over), every code of MANUAL_DEPTS is in it, whatever the shard fetches
\* returned, all of them failing included.
C1_FallbackSuperset ==
    pc = "harvest" =>
        \A i \in 1..Len(MANUAL_DEPTS) : MANUAL_DEPTS[i] \in Range(departments)

\* C1 witness: all shard fetches exhausted their retries and the list is complete
C1_Witness ==
    /\ pc = "harvest"
    /\ AllShardsFailed
    /\ \A s \in Shards : pages[s].none /\ tasks[s].attempts = Retries
    /\ Range(MANUAL_DEPTS) \subseteq Range(departments)

\* the codes the scripts of the index site determine
ScriptCodes ==
    UNION {Range(parse_department_page(index[s][FirstOk(index[s])].body, semester)) :
               s \in {s2 \in Shards : Answered(index[s2])}}

\* C6: the department list is a function of the index responses alone: it is the
\* strictly increasing (hence duplicate-free) list of the codes those responses
\* determine, after get_departments and after the manual codes are added, in every
\* interleaving of the shard fetches.
C6_DiscoveryDeterministic ==
    /\ pc = "found" =>
           StrictlySorted(departments) /\ Range(departments) = ScriptCodes
    /\ pc = "harvest" =>
           /\ StrictlySorted(departments)
           /\ Range(departments) = ScriptCodes \cup Range(MANUAL_DEPTS)

\* C6 witness: the first shard needed a retry while the last one answered at once
\* (their steps interleave freely); both pages were parsed and a discovered code
\* sorts before the manual ones
C6_Witness ==
    /\ pc = "harvest"
    /\ tasks[1].attempts > 1
    /\ tasks[NumShards].attempts = 1
    /\ ~pages[1].none
    /\ ~pages[NumShards].none
    /\ Len(departments) > Len(MANUAL_DEPTS)
    /\ departments[1] = ACCT

\* C7: a shard whose fetch exhausted its retries contributes no code, every shard
\* gets the result its own script gives within its own Retries attempts, and the
\* list holds exactly once each code parsed from a fetched page (and, once added,
\* each manual code), and nothing else.
C7_FailureIsolation ==
    pc \in {"found", "harvest"} =>
        /\ \A s \in Shards :
              /\ pages[s].none <=> ~Answered(index[s])
              /\ ~Answered(index[s]) => tasks[s].attempts = Retries
              /\ Answered(index[s]) =>
                    /\ tasks[s].attempts = FirstOk(index[s])
                    /\ pages[s] = Bytes(index[s][FirstOk(index[s])].body)
        /\ Range(departments) =
              UNION {Range(parse_department_page(pages[s].body, semester)) :
                         s \in {s2 \in Shards : ~pages[s2].none}}
              \cup (IF pc = "harvest" THEN Range(MANUAL_DEPTS) ELSE {})
        /\ Cardinality(Range(departments)) = Len(departments)

\* C7 witness: the first shard failed for good, a later one answered on its last
\* attempt, and its code is in the list
C7_Witness ==
    /\ pc = "harvest"
    /\ pages[1].none
    /\ ~pages[NumShards].none
    /\ tasks[NumShards].attempts = Retries
    /\ MATH \in Range(departments)

(***************************************************************************)
(* Properties of fetch, under SpecFetch.                                   *)
(***************************************************************************)
AnsweredWithin(scr, n) == \E j \in 1..n : scr[j].ok
FirstOkWithin(scr, n) ==
    CHOOSE j \in 1..n : scr[j].ok /\ \A j2 \in 1..(j - 1) : ~scr[j2].ok

\* C2: a call with retries = n >= 1 on a source whose first n attempts all fail
\* makes n attempts, never more on the way, and returns None; it ends by
\* returning, never by an exception.
C2_RetryExhaustion ==
    /\ call.st \in {"try", "sleep", "done"}
    /\ call.attempts <= call.retries
    /\ (call.st = "done" /\ ~AnsweredWithin(script, call.retries)) =>
           call.attempts = call.retries /\ call.result = NoBytes

\* C2 witness: a call with retries = 2 has returned after two failed attempts
C2_Witness ==
    /\ call.st = "done"
    /\ call.retries = 2
    /\ ~script[1].ok /\ ~script[2].ok
    /\ call.attempts = 2
    /\ call.result = NoBytes

\* C9: when attempt j <= retries is the first the source answers, the call returns
\* after exactly j attempts with the bytes of attempt j, whatever the kinds of the
\* failures before it and whatever the source would have answered later.
C9_FirstSuccess ==
    (call.st = "done" /\ AnsweredWithin(script, call.retries)) =>
        LET j == FirstOkWithin(script, call.retries)
        IN  /\ call.attempts = j
            /\ call.sleeps = j - 1
            /\ call.result = Bytes(script[j].body)

\* C9 witness: two failures of different kinds, then an answer that is returned
\* although the next answer would have been another one
C9_Witness ==
    /\ call.st = "done"
    /\ call.retries = MaxRetries
    /\ script[1] = Failure("timeout")
    /\ script[2] = Success(<<Tok("x")>>)
    /\ script[3] = Success(<<>>)
    /\ call.attempts = 2
    /\ call.result = Bytes(<<Tok("x")>>)

(***************************************************************************)
(* Properties of the harvest, under SpecHarvest.                           *)
(***************************************************************************)
LoopOver == pc \in {"dedup", "done", "raised"}

\* C3: whatever fails on the way (fetch exhausted, no '[', malformed payload), the
\* loop starts a fetch for every department in turn and comes to its end without
\* an exception, and all_courses then holds, in order, every record the site
\* served in a clean list answer.
C3_PartialFailure ==
    /\ visited = SubSeq(departments, 1, IF pc = "fetch" THEN k ELSE k - 1)
    /\ IsSubSeq(good, all_courses)
    /\ LoopOver => visited = departments
    /\ err # "" => LoopOver

\* C3 witness: the loop is over and every department was visited; one of them
\* gave the single record held, the others failed, the last one by a fetch that
\* exhausted its retries
C3_Witness ==
    /\ pc = "dedup"
    /\ visited = departments
    /\ Len(good) = 1
    /\ all_courses = good
    /\ htask.result = NoBytes
    /\ htask.attempts = Retries

\* C5 (as claimed): no step of the harvest-and-dedup phase raises
C5_NoFatalError == pc # "raised"

\* the step of HarvestProcess on an answer built as preamble then list
ProcessesList ==
    /\ pc = "fetch"
    /\ htask.st = "done"
    /\ pc' = "loop"
    /\ sent.kind = "list"
    /\ sent.post = <<>>

\* C10 (as claimed): for any preamble, the records of the list are appended
C10_AnyPreamble ==
    [][ProcessesList => all_courses' = all_courses \o sent.items]_vars

\* C10 (amended): when the preamble holds no '[', the harvest appends exactly the
\* elements of the list, in order.
C10_PreambleTolerance ==
    [][(ProcessesList /\ ~HasBracket(sent.pre)) =>
           all_courses' = all_courses \o sent.items]_vars

\* C10 witness: a body of noise, a byte that is not UTF-8, noise, then a list of
\* one record has been processed and gave that record
C10_Witness ==
    /\ pc = "loop"
    /\ k = 2
    /\ sent = Shape("list", <<Tok("x"), Tok("bad"), Tok("x")>>, <<RecA>>, <<>>)
    /\ all_courses = <<RecA>>

(***************************************************************************)
(* Properties of the dedup loop, under SpecDedup.                          *)
(***************************************************************************)
Key(c) == HashKey(Cid(c))

\* positions among the first n of all_courses that hold the first record of their key
FirstOfKey(n) ==
    {j \in 1..n : \A j2 \in 1..(j - 1) : Key(all_courses[j2]) # Key(all_courses[j])}

RECURSIVE AtPositions(_)
AtPositions(S) ==
    IF S = {} THEN <<>>
    ELSE LET m == CHOOSE x \in S : \A y \in S : x <= y
         IN  <<all_courses[m]>> \o AtPositions(S \ {m})

\* C4: while the loop runs and when it returns, deduped holds no two records of
\* one key, and it is, in input order, the earliest record of each key among the
\* records read so far.
C4_FirstWins ==
    pc \in {"dedup", "done"} =>
        /\ \A i, j \in 1..Len(deduped) : i # j => Key(deduped[i]) # Key(deduped[j])
        /\ deduped = AtPositions(FirstOfKey(di - 1))

\* C4 witness: three records, the third with the key of the second, gave the
\* first two
C4_Witness ==
    /\ pc = "done"
    /\ all_courses = <<RecNoId, RecA, RecA2>>
    /\ deduped = <<RecNoId, RecA>>

\* C8: the dedup loop run on its own output returns that output.
C8_Idempotent ==
    pc = "done" =>
        /\ Dedupe(deduped).err = ""
        /\ Dedupe(deduped).deduped = deduped

\* C8 witness: the loop dropped records and kept two
C8_Witness ==
    /\ pc = "done"
    /\ all_courses = <<RecA, RecA2, RecOne>>
    /\ deduped = <<RecA, RecOne>>
    /\ Dedupe(deduped).deduped = deduped

(***************************************************************************)
(* The identity key, under SpecDedup.                                      *)
(***************************************************************************)
HasField(c, name) == \E i \in 1..Len(c.items) : c.items[i].name = name

\* the key by presence of the fields: id if the record has it, else CourseNumber
\* if it has it, else the text of the record
ChainKey(c) ==
    IF HasField(c, "id") THEN Get(c, "id")
    ELSE IF HasField(c, "CourseNumber") THEN Get(c, "CourseNumber")
    ELSE Str(c)

\* C11 (as claimed): the key under which the loop files each record it has read is
\* the value of its id field whenever it has one, else the value of its
\* CourseNumber field whenever it has one, else the text of the record.
C11_FallbackChain ==
    pc \in {"dedup", "done"} =>
        \A j \in 1..(di - 1) : HashKey(ChainKey(all_courses[j])) \in seen

(***************************************************************************)
(* The form of the discovered codes, under Spec.                           *)
(***************************************************************************)
IsAlnum(cp) == cp \in (48..57) \cup (65..90) \cup (97..122)
Upper(code) == [i \in 1..Len(code) |-> IF code[i] \in 97..122 THEN code[i] - 32 ELSE code[i]]
Lower(code) == [i \in 1..Len(code) |-> IF code[i] \in 65..90 THEN code[i] + 32 ELSE code[i]]

\* C12 (as claimed): every code of the list the harvest iterates is 2 to 6
\* alphanumeric characters, the list is in one letter case, and no two of its
\* entries are equal or differ only by letter case.
C12_NormalForm ==
    pc = "harvest" =>
        /\ \A i \in 1..Len(departments) :
              /\ Len(departments[i]) \in 2..6
              /\ \A j \in 1..Len(departments[i]) : IsAlnum(departments[i][j])
        /\ \/ \A i \in 1..Len(departments) : departments[i] = Upper(departments[i])
           \/ \A i \in 1..Len(departments) : departments[i] = Lower(departments[i])
        /\ \A i, j \in 1..Len(departments) :
              Upper(departments[i]) = Upper(departments[j]) => i = j

(***************************************************************************)
(* Which hyperlinks of an index page are emitted, under Spec.              *)
(***************************************************************************)
\* the pages that gather handed to the merge loop
PagesRead == {pages[s].body : s \in {x \in DOMAIN pages : ~pages[x].none}}

\* the hyperlinks of every part of a page
AnyHrefs(html) == UNION {Range(html[p].hrefs) : p \in 1..Len(html)}

\* the hyperlinks in table rows other than the first three and the last
ListedHrefs(html) ==
    LET isRow(p) == html[p].t = "tr"
        rank(p) == Cardinality({q \in 1..p : isRow(q)})
        count == Cardinality({q \in 1..Len(html) : isRow(q)})
    IN  UNION {Range(html[p].hrefs) :
                  p \in {q \in 1..Len(html) : isRow(q) /\ rank(q) > 3 /\ rank(q) < count}}

TargetCodes(hrefs) == {h.stem : h \in {x \in hrefs : Matches(x, semester)}}

\* C13 (as claimed): the codes discovery merges are those of every hyperlink of
\* the pages read whose target matches /<code>_<semester>.html with a code of 2
\* to 6 word characters, and no others.
C13_EveryHyperlink ==
    pc = "found" =>
        Range(departments) = UNION {TargetCodes(AnyHrefs(html)) : html \in PagesRead}

\* C13 (amended): the codes discovery merges are those of every hyperlink that
\* lies in a table row other than the first three rows and the last row of its
\* page and whose target matches /<code>_<semester>.html with a code of 2 to 6
\* word characters, and no others; pages without such a hyperlink give nothing.
C13_ListedHyperlink ==
    pc = "found" =>
        Range(departments) = UNION {TargetCodes(ListedHrefs(html)) : html \in PagesRead}

\* two pages read: one with matching and non-matching hyperlinks in its listed
\* rows, one with matching hyperlinks in skipped rows and outside the table
C13_Witness ==
    /\ pc = "found"
    /\ PagesRead = {PageA, PageC}
    /\ departments = <<A_B, CS1, MATH, hist>>

(***************************************************************************)
(* Backoff waits of one fetch call, under SpecFetch.                       *)
(***************************************************************************)
\* C14 (as claimed): a backoff wait happens only between two attempts: a call
\* that has returned has waited once less than it has attempted, so a call that
\* exhausts retries = n returns None after n attempts and n - 1 waits.
C14_BackoffBetween ==
    call.st = "done" =>
        /\ call.sleeps = call.attempts - 1
        /\ ~AnsweredWithin(script, call.retries) =>
               call.attempts = call.retries /\ call.sleeps = call.retries - 1

(***************************************************************************)
(* The whole run of scrape_courses (lines 89-171): discovery, the manual   *)
(* list, the harvest and the dedup loop, one after the other.  The event   *)
(* loop runs every coroutine that can run, and every attempt ends (the     *)
(* session timeouts of lines 98 and 129), so a step that can be taken is   *)
(* taken.                                                                  *)
(***************************************************************************)
\* no shard answers; or the first never answers and the others answer their
\* second attempt with PageA
RunIndexes ==
    {[s \in Shards |-> FailsThen(Retries, PageEmpty)],
     [s \in Shards |-> IF s = 1 THEN FailsThen(Retries, PageEmpty) ELSE FailsThen(1, PageA)]}

InitRun ==
    /\ index \in RunIndexes
    /\ tasks = [s \in Shards |-> NewCall(Retries)]
    /\ pages = <<>>
    /\ departments = <<>>
    /\ pc = "gather"
    /\ HarvestIdle
    /\ DedupIdle
    /\ CallIdle

\* lines 128-131, 171: asyncio.run(get_courses()) opens the session and starts
\* with no courses
EnterHarvest ==
    /\ pc = "harvest"
    /\ pc' = "loop"
    /\ all_courses' = <<>>
    /\ UNCHANGED <<k, htask, sent, good, visited>>
    /\ UNCHANGED <<discoveryVars, departments, dedupVars, callVars>>

NextRun ==
    \/ Next
    \/ EnterHarvest
    \/ NextHarvest

SpecRun == InitRun /\ [][NextRun]_vars /\ WF_vars(NextRun)

(***************************************************************************)
(* The join of discovery, under SpecRun.                                   *)
(***************************************************************************)
\* C15: while the shard fetches are awaited, each unfinished one can take its
\* next step whatever the others do, no page has been parsed or merged and no
\* harvest request has been made; once the run is past the join every shard
\* fetch has returned and the pages are their results.
C15_JoinBarrier ==
    /\ pc = "gather" =>
          /\ \A s \in Shards :
                tasks[s].st # "done" => ENABLED (ShardAttempt(s) \/ ShardSleep(s))
          /\ pages = <<>> /\ departments = <<>>
          /\ visited = <<>> /\ htask = NewCall(0)
    /\ pc # "gather" =>
          /\ \A s \in Shards : tasks[s].st = "done"
          /\ pages = [s \in Shards |-> tasks[s].result]
    /\ visited # <<>> => pc \notin {"gather", "found", "harvest"}

\* the first harvest request is out; the first shard fetch had used its three
\* attempts, the second had returned earlier, after two
C15_Witness ==
    /\ pc = "fetch"
    /\ Len(visited) = 1
    /\ htask.st = "try"
    /\ tasks[1].attempts = 3 /\ tasks[2].attempts = 2
    /\ pages[2] = Bytes(PageA)

(***************************************************************************)
(* The order of the harvest, under SpecHarvest.                            *)
(***************************************************************************)
\* C16: a harvest request is in flight only for the one category the loop is at;
\* the fetch of a category starts only when the fetch before it has returned and
\* every category requested so far has been processed, and it is the fetch of the
\* next category of the list.
C16_Sequential ==
    [][/\ htask.st \in {"try", "sleep"} => pc = "fetch"
       /\ pc = "fetch" => Len(visited) = k /\ visited[k] = departments[k]
       /\ visited' # visited =>
             /\ pc = "loop"
             /\ htask.st = "done"
             /\ Len(visited) = k - 1
             /\ visited' = Append(visited, departments[k])
             /\ htask'.attempts = 0]_vars

\* the fetch of the second category has just started; the record of the first is
\* stored
C16_Witness ==
    /\ pc = "fetch"
    /\ k = 2
    /\ visited = SubSeq(departments, 1, 2)
    /\ htask.st = "try" /\ htask.attempts = 0
    /\ all_courses = <<RecA>>

\* the list the body of a category decodes to from its first '[': the items the
\* site rendered, the list holding that list when the site wrapped it in a second
\* pair of brackets, nothing when the body is no list or the fetch gave none
Payload(shape) ==
    IF Clean(shape) THEN shape.items
    ELSE IF shape.kind = "list" /\ shape.pre = <<Tok("[")>> /\ shape.post = <<Tok("]")>>
         THEN <<ListVal(shape.items)>>
    ELSE <<>>

Terminated == pc \in {"done", "raised"}

\* the steps a fetch call can still take: an attempt and a sleep per round left
CallLeft(t) ==
    IF t.st = "done" THEN 0
    ELSE 2 * (t.retries - t.i) - (IF t.st = "sleep" THEN 1 ELSE 0)

RECURSIVE SumLeft(_)
SumLeft(S) ==
    IF S = {} THEN 0
    ELSE LET s == CHOOSE x \in S : TRUE IN CallLeft(tasks[s]) + SumLeft(S \ {s})

\* the phases still ahead, and the steps the current phase can still take
Phase ==
    CASE pc = "gather" -> 5
      [] pc = "found" -> 4
      [] pc = "harvest" -> 3
      [] pc \in {"loop", "fetch"} -> 2
      [] pc = "dedup" -> 1
      [] OTHER -> 0

StepsLeft ==
    CASE pc = "gather" -> SumLeft(Shards)
      [] pc = "loop" -> (Len(departments) - k + 1) * (2 * 3 + 2)
      [] pc = "fetch" -> (Len(departments) - k) * (2 * 3 + 2) + CallLeft(htask) + 1
      [] pc = "dedup" -> Len(all_courses) - di + 1
      [] OTHER -> 0

\* the step the run can take where it is
CanStep ==
    CASE pc = "gather" ->
             ENABLED (Gather \/ \E s \in Shards : ShardAttempt(s) \/ ShardSleep(s))
      [] pc = "found" -> ENABLED AddManualDepts
      [] pc = "harvest" -> ENABLED EnterHarvest
      [] pc = "loop" -> ENABLED (HarvestLoop \/ HarvestEnd)
      [] pc = "fetch" ->
             CASE htask.st = "try" -> ENABLED HarvestAttemptFail
               [] htask.st = "sleep" -> ENABLED HarvestSleep
               [] OTHER -> ENABLED HarvestProcess
      [] pc = "dedup" -> ENABLED (DedupStep \/ DedupReturn)
      [] OTHER -> FALSE

\* C18: the run always ends: while it has not ended a step can be taken, and
\* every step either moves to the next phase or lowers the number of steps the
\* phase can still take, which is never negative.  Each shard has one fetch call
\* and the harvest has one fetch call per category of the list, none twice and in
\* the end none left out; a call never makes more than 3 attempts and has made at
\* least 1 when it returns.  (With 26 shards and M categories that is at most
\* 3 * (26 + M) attempts.)
C18_BoundedWork ==
    /\ [](/\ \A s \in Shards :
               /\ tasks[s].attempts <= 3
               /\ tasks[s].st = "done" => tasks[s].attempts >= 1
          /\ htask.attempts <= 3
          /\ (pc = "fetch" /\ htask.st = "done") => htask.attempts >= 1
          /\ visited = SubSeq(departments, 1, Len(visited))
          /\ \A i, j \in 1..Len(visited) : visited[i] = visited[j] => i = j
          /\ Terminated => visited = departments
          /\ StepsLeft >= 0
          /\ ~Terminated => CanStep)
    /\ [][\/ Phase' < Phase
          \/ Phase' = Phase /\ StepsLeft' < StepsLeft]_vars

\* the run has returned: the first shard took three attempts, the second two,
\* every one of the five categories was requested, the last of them three times
C18_Witness ==
    /\ pc = "done"
    /\ tasks[1].attempts = 3 /\ tasks[2].attempts = 2
    /\ Len(departments) = 5 /\ visited = departments
    /\ htask.attempts = 3

(***************************************************************************)
(* What the dedup loop keeps, under SpecDedup.                             *)
(***************************************************************************)
KeysOf(records) == {Key(records[i]) : i \in 1..Len(records)}

\* C19: when the loop returns, its output is a subsequence of the accumulated
\* sequence, each record as it was; the keys of the output are the keys of the
\* input, each with exactly one record in the output.
C19_NothingLostOrInvented ==
    pc = "done" =>
        /\ IsSubSeq(deduped, all_courses)
        /\ KeysOf(deduped) = KeysOf(all_courses)
        /\ Cardinality(KeysOf(deduped)) = Len(deduped)

\* a record without id between two records of one id: the first two are kept
C19_Witness ==
    /\ pc = "done"
    /\ all_courses = <<RecA, RecNoId, RecA2>>
    /\ deduped = <<RecA, RecNoId>>
    /\ seen = {StrVal("A"), Str(RecNoId)}

====
